---- MODULE Spec2Model ----
(***************************************************************************)
(* rmbg-service: asynchronous background-removal jobs.                     *)
(*                                                                         *)
(* run_local.start_all spawns Celery workers and the FastAPI server;       *)
(* routes.create_task saves the upload and enqueues a remove_background    *)
(* task on queue 'gpu'; the task (worker/tasks/remove_bg.py) runs the      *)
(* model, stores the result and cleans up; routes.get_task_status reads    *)
(* the Celery result backend.                                              *)
(*                                                                         *)
(* Python None / a missing dict key is the empty set, a present value v    *)
(* is {v}.  Timestamps are integer milliseconds, so round(x, 3) of a       *)
(* difference in seconds keeps the value.                                  *)
(***************************************************************************)
EXTENDS Integers, Sequences, FiniteSets, TLC

\* ------------------------------------------------------------------ bounds
MaxJobs == 2          \* uploads accepted by create_task in one run
MaxTime == 1          \* clock readings range over 0..MaxTime
MaxGpus == 1          \* get_gpu_count() returns 0..MaxGpus
MaxConcurrency == 2   \* --concurrency ranges over 1..MaxConcurrency
MaxDevices == 3       \* get_gpu_count() returns 0..MaxDevices when the
                      \* launcher is followed step by step (LauncherSpec)
MaxWorkerId == 2      \* worker name digits and os.getpid() % 10 range
                      \* over 0..MaxWorkerId
MaxRuns == 2          \* executions of remove_background followed file by
                      \* file
MaxUuid == 1          \* str(uuid.uuid4())[:8] ranges over 0..MaxUuid

Jobs == 1..MaxJobs
Time == 0..MaxTime

None == {}
Some(v) == {v}

\* ------------------------------------------------------- program constants
\* settings.CELERY_TASK_TRACK_STARTED: Celery writes STARTED when a worker
\* begins to execute a task.
CELERY_TASK_TRACK_STARTED_off == FALSE
CELERY_TASK_TRACK_STARTED == TRUE

\* routes.create_task: apply_async(..., queue='gpu')
SUBMIT_QUEUE == "gpu"
\* Celery's default queue, consumed by a worker started without -Q
DEFAULT_QUEUE == "celery"

\* routes.get_task_status: status_mapping.get(state, TaskStatus.PENDING)
status_mapping(state) ==
    CASE state = "PENDING" -> "pending"
      [] state = "STARTED" -> "processing"
      [] state = "SUCCESS" -> "completed"
      [] state = "FAILURE" -> "failed"
      [] state = "REVOKED" -> "failed"
      [] OTHER -> "pending"

\* Exception texts (str(e)).
E_S3 == "S3Client: bucket check failed"
E_TYPE == "send_callback() got an unexpected keyword argument 'callback_url'"
E_MODEL == "Failed to process image with model"
E_UPLOAD == "S3 upload failed"

\* remove_bg.py:124  error_message = f"Error in background removal task: {str(e)}"
error_message_empty(e) == ""

error_message(e) == "Error in background removal task: " \o e

VARIABLES
    settings,          \* src/config/settings.py as loaded by the deployment
    phase,             \* "init" before start_all has run, then "running"
    gpu_count,         \* what get_gpu_count() returned
    concurrency,       \* --concurrency given to every worker
    worker_processes,  \* start_all's list: the spawned workers
    environ,           \* the launcher's os.environ["CUDA_VISIBLE_DEVICES"]
    queues,            \* broker: queue name -> sequence of task ids
    descriptor,        \* task id -> the message body enqueued for it
    backend,           \* Celery result backend: task id -> stored meta
    uploads,           \* TEMP_UPLOAD_DIR: file id -> "absent" | content
    results,           \* RESULT_DIR: the output artifacts written
    task,              \* task id -> the frame of its remove_background run
    issued,            \* number of uploads saved so far (next file/task id)
    known,             \* task ids returned to a caller with 202
    response,          \* the HTTP response the API gave in the step just taken
                       \* (NoResponse after a step that answers no request)
    notified,          \* task id -> the statuses of the send_callback calls
                       \* its task has evaluated, in order
    launcher,          \* run_local's main process: position, workers' fate
    notify,            \* one CallbackClient.send_callback call and its effect
    crashed,           \* the spawned workers whose process has died
    redis_up,          \* whether the Redis broker/backend answers
    child,             \* one pool child of a worker: environment, model
                       \* instances, the instances its tasks have used
    pool,              \* the pool children of one worker inside
                       \* model.remove_background, and their model instances
    runs               \* executions of remove_background seen through the
                       \* files they read, write and remove

vars == << settings, phase, gpu_count, concurrency, worker_processes, environ,
           queues, descriptor, backend, uploads, results, task, issued, known,
           response, notified, launcher, notify, crashed, redis_up, child, pool,
           runs >>

\* What only the specifications of worker crashes, of the health query and of
\* a pool child's life change.
infra == << crashed, redis_up, child, pool, runs >>

\* ----------------------------------------------------------- stored values
\* A Python value kept in the result backend or returned by the task:
\* kind "none" (None), "dict" (the keys that are present hold {v}) or
\* "exc" (an exception instance, exc = {str(e)}).
NoResult ==
    [kind |-> "none", status |-> None, result_url |-> None, error |-> None,
     processing_time |-> None, model_time |-> None, queue_time |-> None,
     exc |-> None]

Dict(fields) == fields @@ [NoResult EXCEPT !.kind = "dict"]

ExceptionValue(msg) == [NoResult EXCEPT !.kind = "exc", !.exc = Some(msg)]

\* No key in the backend for this id.
NoMeta == [state |-> "ABSENT", result |-> NoResult]

NoDescriptor ==
    [image_path |-> 0, has_callback_data |-> FALSE, creation_time |-> 0]

NoFrame ==
    [pc |-> "idle", worker |-> 0, start_time |-> 0, now |-> 0,
     queue_time |-> 0, model_time |-> 0, exc |-> None, retval |-> NoResult]

NoResponse ==
    [op |-> "none", code |-> 0, task_id |-> 0, status |-> None,
     result_url |-> None, error |-> None, processing_time |-> None,
     model_time |-> None, queue_time |-> None, components |-> None]

\* run_local's main process before it has done anything.  status: what has
\* become of each spawned worker ("running", "terminating" after SIGTERM,
\* "exited", "killed"); k: the index the shutdown loop is at.
NoLauncher ==
    [pc |-> "idle", mode |-> "all", k |-> 0, status |-> << >>]

\* No send_callback call is under way.
NoCall ==
    [pc |-> "none", enabled |-> FALSE, callback_url |-> None,
     auth_token |-> None, site |-> "none", status |-> "none",
     result_url |-> None, error |-> None, job_url |-> None,
     job_auth |-> None, custom_data |-> None, outcome |-> "none",
     retval |-> FALSE, http |-> "none", requests |-> << >>]

\* No pool child has been forked.  instances is the module's
\* _model_instances (a set of [key, worker_id, device, gpu_id] entries).
NoChild ==
    [pc |-> "none", device_setting |-> "cuda", host_gpus |-> 0,
     cuda_available |-> FALSE,
     worker_name |-> [empty |-> TRUE, digits |-> None], pid |-> 0,
     spawn_cuda |-> None, environ_cuda |-> None, worker_id |-> 0,
     instances |-> {}, constructed |-> 0, used |-> {}, tasks |-> 0]

\* Every pool child of the worker is idle; orig is the (orig_h, orig_w) kept
\* on the child's model instance, 0 before the first image.
NoPool ==
    [s \in 1..MaxConcurrency |-> [pc |-> "idle", job |-> 0, orig |-> 0]]

\* No execution has begun.  inputs: the files of TEMP_UPLOAD_DIR by path;
\* outputs, objects: the files of RESULT_DIR and the S3 objects, each a
\* record of its name and of the execution that wrote it last; att: the
\* executions so far.
NoRuns ==
    [inputs |-> [p \in 1..MaxRuns |-> "absent"], outputs |-> {},
     objects |-> {}, att |-> << >>]

\* An execution of remove_background that has not passed line 28.
NoRun ==
    [pc |-> "begin", path |-> 0, original_filename |-> "", callback |-> FALSE,
     delivery |-> 1, output_filename |-> None, input_missing |-> FALSE,
     exc |-> None, state |-> "STARTED", error |-> None]

Init ==
    /\ settings \in [S3_CONFIGURED : BOOLEAN]
    /\ phase = "init"
    /\ gpu_count = 0
    /\ concurrency = 1
    /\ worker_processes = << >>
    /\ environ = None
    /\ queues = [q \in {SUBMIT_QUEUE, DEFAULT_QUEUE} |-> << >>]
    /\ descriptor = [j \in Jobs |-> NoDescriptor]
    /\ backend = [j \in Jobs |-> NoMeta]
    /\ uploads = [j \in Jobs |-> "absent"]
    /\ results = {}
    /\ task = [j \in Jobs |-> NoFrame]
    /\ issued = 0
    /\ known = {}
    /\ response = NoResponse
    /\ notified = [j \in Jobs |-> << >>]
    /\ launcher = NoLauncher
    /\ notify = NoCall
    /\ crashed = {}
    /\ redis_up = TRUE
    /\ child = NoChild
    /\ pool = NoPool
    /\ runs = NoRuns

\* ------------------------------------------------------------ run_local.py
\* start_worker(concurrency, loglevel, gpu_index): with a gpu_index the worker
\* gets "-Q gpu" and the launcher's CUDA_VISIBLE_DEVICES is overwritten before
\* Popen; the child inherits the launcher's environment as it is at Popen.
\* gpu_index is None ({}) or {i}.
start_worker_default_queue(env, gpu_index) ==
    LET env2 == IF gpu_index # None THEN gpu_index ELSE env
    IN [proc |-> [queue |-> DEFAULT_QUEUE, cuda_visible_devices |-> env2],
        env |-> env2]

start_worker_env_after_popen(env, gpu_index) ==
    [proc |-> [queue |-> IF gpu_index # None THEN SUBMIT_QUEUE
                                            ELSE DEFAULT_QUEUE,
               cuda_visible_devices |-> env],
     env |-> IF gpu_index # None THEN gpu_index ELSE env]

start_worker(env, gpu_index) ==
    LET env2 == IF gpu_index # None THEN gpu_index ELSE env
    IN [proc |-> [queue |-> IF gpu_index # None THEN SUBMIT_QUEUE
                                                ELSE DEFAULT_QUEUE,
                  cuda_visible_devices |-> env2],
        env |-> env2]

\* start_all's loop "for i in range(gpu_count)": the workers spawned for
\* indices i..n-1 appended to procs, and the launcher environment afterwards.
RECURSIVE spawn_gpu_workers(_, _, _, _)
spawn_gpu_workers(i, n, procs, env) ==
    IF i >= n THEN [procs |-> procs, env |-> env]
    ELSE LET r == start_worker(env, Some(i))
         IN spawn_gpu_workers(i + 1, n, Append(procs, r.proc), r.env)

\* start_all up to the point where the API serves requests.
StartAll ==
    /\ phase = "init"
    /\ \E n \in 0..MaxGpus, c \in 1..MaxConcurrency :
         LET r == IF n > 0
                  THEN spawn_gpu_workers(0, n, << >>, environ)
                  ELSE LET w == start_worker(environ, None)
                       IN [procs |-> << w.proc >>, env |-> w.env]
         IN /\ gpu_count' = n
            /\ concurrency' = c
            /\ worker_processes' = r.procs
            /\ environ' = r.env
    /\ phase' = "running"
    /\ UNCHANGED << settings, queues, descriptor, backend, uploads, results,
                    task, issued, known, response, notified, launcher, notify,
                    infra >>

\* ------------------------------------------------------- api/routes.py
\* remove_background.apply_async(args=[...], queue='gpu', kwargs={...}): the
\* broker's queues after the message for task id has been published.
apply_async_unrouted(qs, id) == [qs EXCEPT ![DEFAULT_QUEUE] = Append(@, id)]

apply_async(qs, id) == [qs EXCEPT ![SUBMIT_QUEUE] = Append(@, id)]

\* create_task's answer when saving or publishing raised (lines 120-125):
\* HTTPException(status_code=500), no TaskResponse.
create_task_failed_as_400 ==
    [NoResponse EXCEPT !.op = "create_task", !.code = 400]

create_task_failed ==
    [NoResponse EXCEPT !.op = "create_task", !.code = 500]

\* create_task.  content_type_ok: validate_image_file; request_data is
\* "none", "malformed", "plain" (valid JSON without callback_url) or
\* "callback" (valid JSON with callback_url); content is what the uploaded
\* bytes are ("image" or "garbage": only the content type is validated);
\* broker_up: whether apply_async reaches the broker; now: time.time().
CreateTask ==
    /\ phase = "running"
    /\ \E content_type_ok \in BOOLEAN,
          request_data \in {"none", "malformed", "plain", "callback"} :
         IF ~content_type_ok \/ request_data = "malformed"
         THEN /\ response' = [NoResponse EXCEPT !.op = "create_task", !.code = 400]
              /\ UNCHANGED << uploads, issued, queues, descriptor, known >>
         ELSE /\ issued < MaxJobs
              /\ \E content \in {"image", "garbage"}, broker_up \in BOOLEAN,
                    now \in Time :
                 \* apply_async cannot reach a Redis that is down
                 /\ broker_up => redis_up
                 /\ LET id == issued + 1
                        \* callback_data is a dict only when request.callback_url
                        callback_data == (request_data = "callback")
                    IN /\ issued' = id
                       /\ uploads' = [uploads EXCEPT ![id] = content]
                       /\ IF broker_up
                          THEN /\ queues' = apply_async(queues, id)
                               /\ descriptor' = [descriptor EXCEPT ![id] =
                                    [image_path |-> id,
                                     has_callback_data |-> callback_data,
                                     creation_time |-> now]]
                               /\ known' = known \cup {id}
                               /\ response' = [NoResponse EXCEPT
                                    !.op = "create_task", !.code = 202,
                                    !.task_id = id, !.status = Some("pending")]
                          ELSE /\ response' = create_task_failed
                               /\ UNCHANGED << queues, descriptor, known >>
    /\ UNCHANGED << settings, phase, gpu_count, concurrency, worker_processes,
                    environ, backend, results, task, notified, launcher, notify, infra >>

\* AsyncResult(task_id).state: Celery answers PENDING for an id that has no
\* entry in the backend (a task waiting in the queue has none either).
AsyncResult_state(id) ==
    IF backend[id].state = "ABSENT" THEN "PENDING" ELSE backend[id].state

\* TaskStatusResponse.validate_url
validate_url(v) == v = None \/ \A u \in v : u.scheme \in {"http", "https"}

\* "if status == TaskStatus.FAILED:" (line 178), the test that guards the
\* copying of error and timings.
copies_failed_always(status) == TRUE

copies_failed(status) == status = "failed"

\* The body of get_task_status for task_id = id.  meta_readable: whether the
\* backend hands a FAILURE entry that holds a plain dict back as that dict
\* (the handler's isinstance(result, dict) branch) or fails to decode it;
\* revalidate: whether the framework validates the returned model against
\* response_model again (which runs validate_url on result_url).
TaskStatusResponse(id, meta_readable, revalidate) ==
    LET state == AsyncResult_state(id)
        result == backend[id].result
        status == status_mapping(state)
        base == [NoResponse EXCEPT !.op = "get_task_status", !.task_id = id]
        r0 == [base EXCEPT !.code = 200, !.status = Some(status)]
        r1 == IF status = "completed" /\ result.kind = "dict"
              THEN [r0 EXCEPT !.result_url = result.result_url,
                              !.processing_time = result.processing_time,
                              !.model_time = result.model_time,
                              !.queue_time = result.queue_time]
              ELSE r0
        r2 == IF copies_failed(status)
              THEN CASE result.kind = "exc" -> [r1 EXCEPT !.error = result.exc]
                     [] result.kind = "dict" ->
                          [r1 EXCEPT !.error = result.error,
                                     !.processing_time = result.processing_time,
                                     !.model_time = result.model_time,
                                     !.queue_time = result.queue_time]
                     [] OTHER -> [r1 EXCEPT !.error = Some("Unknown error")]
              ELSE r1
    IN IF state = ""
       THEN [base EXCEPT !.code = 404]
       ELSE IF state = "FAILURE" /\ result.kind = "dict" /\ ~meta_readable
       THEN [base EXCEPT !.code = 500]
       ELSE IF revalidate /\ ~validate_url(r2.result_url)
       THEN [base EXCEPT !.code = 500]
       ELSE r2

\* A handler that would drop the entry it read (AsyncResult.forget()).
GetTaskStatus_forgets(id) ==
    /\ phase = "running"
    /\ response' = TaskStatusResponse(id, TRUE, FALSE)
    /\ backend' = [backend EXCEPT ![id] = NoMeta]
    /\ UNCHANGED << settings, phase, gpu_count, concurrency, worker_processes,
                    environ, queues, descriptor, uploads, results,
                    task, issued, known, notified, launcher, notify, infra >>

GetTaskStatus(id) ==
    /\ phase = "running"
    /\ \E meta_readable \in BOOLEAN, revalidate \in BOOLEAN :
         /\ meta_readable \/ (backend[id].state = "FAILURE" /\ backend[id].result.kind = "dict")
         /\ revalidate \/ ~validate_url(backend[id].result.result_url)
         /\ response' = TaskStatusResponse(id, meta_readable, revalidate)
    /\ UNCHANGED << settings, phase, gpu_count, concurrency, worker_processes,
                    environ, queues, descriptor, backend, uploads, results,
                    task, issued, known, notified, launcher, notify, infra >>

\* ---------------------------------------------------- utils/callbacks.py
\* The keyword parameters of CallbackClient.send_callback (besides self).
send_callback_params == {"task_id", "status", "result_url", "error"}

\* The keys of the callback_data dict built by create_task.
callback_data_keys == {"callback_url", "callback_auth", "custom_data"}

\* A Python call binds only when every keyword names a parameter;
\* otherwise it raises TypeError before the body runs.
call_binds(keywords) == keywords \subseteq send_callback_params

\* ------------------------------------------- worker/tasks/remove_bg.py
\* queue_time = round(start_time - creation_time, 3)
queue_time_swapped(start_time, creation_time) == creation_time - start_time

queue_time_of(start_time, creation_time) == start_time - creation_time

\* self.update_state(state=..., meta=...): the entry of task j in the result
\* backend b is replaced by the given state and meta dict.
update_state_dropped(b, j, state, meta) == b

update_state(b, j, state, meta) ==
    [b EXCEPT ![j] = [state |-> state, result |-> Dict(meta)]]

\* Number of tasks a worker process is executing.
Busy_keeps_failed(w) ==
    Cardinality({j \in Jobs :
                   (task[j].pc \notin {"idle", "done"} /\ task[j].worker = w)
                      \/ backend[j].state = "FAILURE"})

Busy(w) == Cardinality({j \in Jobs : task[j].pc \notin {"idle", "done"}
                                     /\ task[j].worker = w})

\* A worker executes at most --concurrency tasks at a time (one per pool child).
slot_free_unlimited(w) == TRUE

slot_free(w) == Busy(w) < concurrency

\* The worker takes a message off its queue: the broker hands each message
\* to one consumer and the worker acknowledges it before the task runs
\* (task_acks_late is not set), so the message is gone from the queue.
dequeue_peek(q) == q

dequeue(q) == Tail(q)

\* The queue worker w consumes.
consumed_queue(w) == worker_processes[w].queue

\* What no step of a worker touches; a worker step answers no HTTP request.
UnchangedByTask ==
    /\ response' = NoResponse
    /\ UNCHANGED << settings, phase, gpu_count, concurrency, worker_processes,
                    environ, descriptor, issued, known, launcher, notify, infra >>

\* A pool child of worker w takes the next descriptor from the worker's
\* queue and starts tracing the task: with task_track_started Celery stores
\* STARTED (meta: pid, hostname) before the task body runs.
StartTask(w, j) ==
    /\ phase = "running"
    /\ w \in DOMAIN worker_processes
    /\ w \notin crashed
    /\ slot_free(w)
    /\ queues[consumed_queue(w)] # << >>
    /\ j = Head(queues[consumed_queue(w)])
    /\ queues' = [queues EXCEPT ![consumed_queue(w)] = dequeue(@)]
    /\ task' = [task EXCEPT ![j] = [NoFrame EXCEPT !.pc = "prologue", !.worker = w]]
    /\ backend' = IF CELERY_TASK_TRACK_STARTED
                  THEN [backend EXCEPT ![j] = [state |-> "STARTED", result |-> Dict(<< >>)]]
                  ELSE backend
    /\ UNCHANGED << uploads, results, notified >>
    /\ UnchangedByTask

\* remove_background lines 28-49: read the clock, build the clients, write
\* STARTED, send the "processing" callback.  s3_ok: whether S3Client()
\* (boto3 client + head_bucket/create_bucket) returns instead of raising.  An
\* exception here is outside the try statement: it leaves the task at once.
Prologue(j) ==
    /\ task[j].pc = "prologue"
    /\ \E start_time \in Time, s3_ok \in BOOLEAN :
         LET d == descriptor[j]
             f == [task[j] EXCEPT
                     !.start_time = start_time, !.now = start_time,
                     !.queue_time = queue_time_of(start_time, d.creation_time)]
         IN IF ~s3_ok
            THEN /\ task' = [task EXCEPT ![j] = [f EXCEPT !.pc = "trace_end",
                                                          !.exc = Some(E_S3)]]
                 /\ UNCHANGED << backend, notified >>
            ELSE /\ backend' = update_state(backend, j, "STARTED",
                                            [status |-> Some("processing")])
                 /\ notified' = IF d.has_callback_data
                                 THEN [notified EXCEPT ![j] = Append(@, "processing")]
                                 ELSE notified
                 /\ IF d.has_callback_data
                       /\ ~call_binds({"task_id", "status"} \cup callback_data_keys)
                    THEN task' = [task EXCEPT ![j] = [f EXCEPT !.pc = "trace_end",
                                                               !.exc = Some(E_TYPE)]]
                    ELSE task' = [task EXCEPT ![j] = [f EXCEPT !.pc = "model"]]
    /\ UNCHANGED << queues, uploads, results >>
    /\ UnchangedByTask

\* remove_background lines 51-76: model.remove_background reads the input
\* (cv2.imread gives None for a missing or undecodable file, the model then
\* returns False) and writes the output file.  The clock is read after the
\* model call (t2); the reading before it is taken to equal the task's
\* previous reading.
RunModel(j) ==
    /\ task[j].pc = "model"
    /\ \E t2 \in task[j].now..MaxTime :
         LET success == uploads[descriptor[j].image_path] = "image"
             model_start_time == task[j].now
             f == [task[j] EXCEPT !.now = t2, !.model_time = t2 - model_start_time]
         IN IF success
            THEN /\ results' = results \cup {j}
                 /\ task' = [task EXCEPT ![j] = [f EXCEPT !.pc = "store"]]
            ELSE /\ results' = results
                 /\ task' = [task EXCEPT ![j] = [f EXCEPT !.pc = "except",
                                                          !.exc = Some(E_MODEL)]]
    /\ UNCHANGED << queues, uploads, backend, notified >>
    /\ UnchangedByTask

\* remove_background lines 78-121: upload or local path, total time, result
\* dict, "completed" callback, return.  upload_ok: whether upload_file returns.
StoreResult(j) ==
    /\ task[j].pc = "store"
    /\ \E upload_ok \in BOOLEAN, t \in task[j].now..MaxTime :
         LET s3_configured == settings.S3_CONFIGURED
             result_url == IF s3_configured
                           THEN [scheme |-> "https", path |-> j]
                           ELSE [scheme |-> "file", path |-> j]
             result == Dict([status |-> Some("completed"),
                             result_url |-> Some(result_url),
                             processing_time |-> Some(t - task[j].start_time),
                             model_time |-> Some(task[j].model_time),
                             queue_time |-> Some(task[j].queue_time)])
             f == [task[j] EXCEPT !.now = t]
         IN IF s3_configured /\ ~upload_ok
            THEN /\ task' = [task EXCEPT ![j] = [task[j] EXCEPT !.pc = "except",
                                                                !.exc = Some(E_UPLOAD)]]
                 /\ UNCHANGED notified
            ELSE /\ s3_configured \/ upload_ok
                 /\ notified' = IF descriptor[j].has_callback_data
                                 THEN [notified EXCEPT ![j] = Append(@, "completed")]
                                 ELSE notified
                 /\ IF descriptor[j].has_callback_data
                       /\ ~call_binds({"task_id", "status", "result_url",
                                       "processing_time", "model_time", "queue_time"}
                                      \cup callback_data_keys)
                    THEN task' = [task EXCEPT ![j] = [f EXCEPT !.pc = "except",
                                                               !.exc = Some(E_TYPE)]]
                    ELSE task' = [task EXCEPT ![j] = [f EXCEPT !.pc = "finally",
                                                               !.retval = result]]
    /\ UNCHANGED << queues, uploads, results, backend >>
    /\ UnchangedByTask

\* remove_background lines 123-150: the except clause.  The "failed" callback
\* comes first; if that call raises, update_state is not reached and the new
\* exception replaces the one being handled.
ExceptClause(j) ==
    /\ task[j].pc = "except"
    /\ \E t \in task[j].now..MaxTime :
         LET e == CHOOSE m \in task[j].exc : TRUE
             error_time == t - task[j].start_time
             f == [task[j] EXCEPT !.now = t, !.pc = "finally"]
         IN /\ notified' = IF descriptor[j].has_callback_data
                            THEN [notified EXCEPT ![j] = Append(@, "failed")]
                            ELSE notified
            /\ IF descriptor[j].has_callback_data
                  /\ ~call_binds({"task_id", "status", "error", "processing_time",
                                  "queue_time"} \cup callback_data_keys)
               THEN /\ task' = [task EXCEPT ![j] = [f EXCEPT !.exc = Some(E_TYPE)]]
                    /\ UNCHANGED backend
               ELSE /\ backend' = update_state(backend, j, "FAILURE",
                          [status |-> Some("failed"),
                           error |-> Some(error_message(e)),
                           processing_time |-> Some(error_time),
                           queue_time |-> Some(task[j].queue_time)])
                    /\ task' = [task EXCEPT ![j] = f]
    /\ UNCHANGED << queues, uploads, results >>
    /\ UnchangedByTask

\* remove_background lines 151-163: the finally clause removes the input file
\* when it exists (os.remove is taken to succeed: its error would only be
\* logged).  The output file is left alone.
FinallyClause(j) ==
    /\ task[j].pc = "finally"
    /\ LET path == descriptor[j].image_path
       IN uploads' = IF uploads[path] # "absent"
                     THEN [uploads EXCEPT ![path] = "absent"]
                     ELSE uploads
    /\ task' = [task EXCEPT ![j].pc = "trace_end"]
    /\ UNCHANGED << queues, results, backend, notified >>
    /\ UnchangedByTask

\* Celery's task tracer after the body: a raised exception is stored as
\* FAILURE with the exception as result, a returned value as SUCCESS with it.
\* The pool child is free again and the call's locals are gone (the frame
\* keeps only the start_time the task logged).
TraceEnd(j) ==
    /\ task[j].pc = "trace_end"
    /\ backend' = [backend EXCEPT ![j] =
         IF task[j].exc # None
         THEN [state |-> "FAILURE",
               result |-> ExceptionValue(CHOOSE m \in task[j].exc : TRUE)]
         ELSE [state |-> "SUCCESS", result |-> task[j].retval]]
    /\ task' = [task EXCEPT ![j] = [NoFrame EXCEPT !.pc = "done",
                                                   !.start_time = task[j].start_time]]
    /\ UNCHANGED << queues, uploads, results, notified >>
    /\ UnchangedByTask

TaskStep(j) ==
    \/ \E w \in 1..MaxGpus + 1 : StartTask(w, j)
    \/ Prologue(j)
    \/ RunModel(j)
    \/ StoreResult(j)
    \/ ExceptClause(j)
    \/ FinallyClause(j)
    \/ TraceEnd(j)

Next ==
    \/ StartAll
    \/ CreateTask
    \/ \E id \in Jobs : GetTaskStatus(id)
    \/ \E j \in Jobs : TaskStep(j)

Spec == Init /\ [][Next]_vars

\* The worker side is scheduled fairly: a pool child that can take a step
\* eventually takes it.
FairSpec == Spec /\ \A j \in Jobs : WF_vars(TaskStep(j))

\* ------------------------------------------------------- worker crashes
\* A whole worker process (main process and pool) dies: power loss, kill -9.
\* Its running tasks stop where they are; their messages were acknowledged
\* when they were received (Celery's default, task_acks_late is not set in
\* celery_app.py), so they are not in the queue any more; nothing is written
\* to the result backend; start_all does not respawn the worker.
WorkerCrash(w) ==
    /\ phase = "running"
    /\ w \in DOMAIN worker_processes
    /\ w \notin crashed
    /\ crashed' = crashed \cup {w}
    /\ task' = [j \in Jobs |->
                  IF task[j].pc \notin {"idle", "done"} /\ task[j].worker = w
                  THEN [task[j] EXCEPT !.pc = "lost"]
                  ELSE task[j]]
    /\ response' = NoResponse
    /\ UNCHANGED << settings, phase, gpu_count, concurrency, worker_processes,
                    environ, queues, descriptor, backend, uploads, results,
                    issued, known, notified, launcher, notify, redis_up, child,
                    pool, runs >>

CrashNext ==
    \/ Next
    \/ \E w \in 1..MaxGpus + 1 : WorkerCrash(w)

\* Workers may crash; those that live are scheduled fairly.
CrashSpec ==
    Init /\ [][CrashNext]_vars /\ \A j \in Jobs : WF_vars(TaskStep(j))

\* ------------------------------------------------------- health query
\* celery_app.control.ping(timeout=1.0): raises when Redis cannot be
\* reached, otherwise returns the replies of the workers that are alive.
ping ==
    IF redis_up
    THEN [raised |-> FALSE, replies |-> DOMAIN worker_processes \ crashed]
    ELSE [raised |-> TRUE, replies |-> {}]

\* Lines 212-219.
celery_status_of(p) ==
    IF p.raised \/ p.replies = {} THEN "unhealthy" ELSE "healthy"

\* Lines 221-228: Redis itself is not probed.
redis_status_always_healthy(celery_status) == "healthy"

redis_status_of(celery_status) ==
    IF celery_status = "unhealthy" THEN "unknown" ELSE "healthy"

\* health_check (the outer except clause, lines 244-254, has nothing that
\* raises into it).
HealthCheck ==
    /\ phase = "running"
    /\ LET celery_status == celery_status_of(ping)
           redis_status == redis_status_of(celery_status)
           overall_status == IF celery_status # "healthy" \/ redis_status # "healthy"
                             THEN "degraded" ELSE "healthy"
       IN response' = [NoResponse EXCEPT
             !.op = "health_check", !.code = 200,
             !.status = Some(overall_status),
             !.components = Some([api |-> "healthy", worker |-> celery_status,
                                  redis |-> redis_status])]
    /\ UNCHANGED << settings, phase, gpu_count, concurrency, worker_processes,
                    environ, queues, descriptor, backend, uploads, results,
                    task, issued, known, notified, launcher, notify, infra >>

\* Redis goes down or comes back.
RedisChanges ==
    /\ redis_up' = ~redis_up
    /\ response' = NoResponse
    /\ UNCHANGED << settings, phase, gpu_count, concurrency, worker_processes,
                    environ, queues, descriptor, backend, uploads, results,
                    task, issued, known, notified, launcher, notify, crashed,
                    child, pool, runs >>

\* The API side with its dependencies coming and going; no task is run.
HealthNext ==
    \/ StartAll
    \/ CreateTask
    \/ HealthCheck
    \/ RedisChanges
    \/ \E w \in 1..MaxGpus + 1 : WorkerCrash(w)

HealthSpec == Init /\ [][HealthNext]_vars

\* ------------------------------------- utils/callbacks.py, call by call
\* One call of CallbackClient.send_callback, from the construction of the
\* client to the call's return or exception.

\* The keywords of the call, by call site: "direct" is a call that passes
\* only parameters of the signature, the other three are the calls of
\* remove_background (lines 44-49, 110-118, 132-139) with **callback_data.
call_keywords(site, result_url, error) ==
    CASE site = "processing" ->
           {"task_id", "status"} \cup callback_data_keys
      [] site = "completed" ->
           {"task_id", "status", "result_url", "processing_time",
            "model_time", "queue_time"} \cup callback_data_keys
      [] site = "failed" ->
           {"task_id", "status", "error", "processing_time", "queue_time"}
              \cup callback_data_keys
      [] OTHER ->
           {"task_id", "status"}
              \cup (IF result_url # None THEN {"result_url"} ELSE {})
              \cup (IF error # None THEN {"error"} ELSE {})

\* How requests.post ends: with a response of some status class, or with an
\* exception (requests.Timeout after timeout=10, requests.ConnectionError).
HttpOutcomes == {"2xx", "3xx", "4xx", "5xx", "timeout", "connection_error"}

TransportErrors == {"timeout", "connection_error"}

\* "except RequestException": the exceptions of requests.post it catches.
caught_connection_only(e) == e = "connection_error"

caught(e) == e \in {"timeout", "connection_error"}

\* response.ok: requests' raise_for_status() would not raise, that is the
\* status is not a 4xx or 5xx one.
response_ok(http) == http \notin {"4xx", "5xx"}

\* CallbackClient() reads the deployment's settings, then send_callback is
\* called with the arguments of the site.
CallSendCallback ==
    /\ notify.pc = "none"
    /\ \E enabled \in BOOLEAN,
          callback_url \in {None, Some("https://deployment.example/hook")},
          auth_token \in {None, Some("deployment-token")},
          site \in {"direct", "processing", "completed", "failed"} :
         LET client == [NoCall EXCEPT !.pc = "called", !.enabled = enabled,
                                      !.callback_url = callback_url,
                                      !.auth_token = auth_token, !.site = site]
         IN IF site = "direct"
            THEN \E status \in {"processing", "completed", "failed"},
                    result_url \in {None, Some("https://bucket.example/r.png")},
                    error \in {None, Some("boom")} :
                   notify' = [client EXCEPT !.status = status,
                                            !.result_url = result_url,
                                            !.error = error]
            ELSE \E job_auth \in {None, Some("job-token")},
                    custom_data \in {None, Some("order-42")} :
                   notify' = [client EXCEPT
                      !.status = site,
                      !.result_url = IF site = "completed"
                                     THEN Some("https://bucket.example/r.png")
                                     ELSE None,
                      !.error = IF site = "failed" THEN Some("boom") ELSE None,
                      !.job_url = Some("https://caller.example/hook"),
                      !.job_auth = job_auth,
                      !.custom_data = custom_data]
    /\ UNCHANGED << settings, phase, gpu_count, concurrency, worker_processes,
                    environ, queues, descriptor, backend, uploads, results,
                    task, issued, known, response, notified, launcher, infra >>

\* The call itself: binding of the arguments, then the body (lines 29-74).
SendCallback ==
    /\ notify.pc = "called"
    /\ LET c == notify
           post == [url |-> c.callback_url,
                    authorization |-> c.auth_token,
                    json |-> [task_id |-> Some("task-1"),
                              status |-> Some(c.status),
                              result_url |-> c.result_url,
                              error |-> c.error,
                              processing_time |-> None,
                              queue_time |-> None,
                              custom_data |-> None]]
       IN IF ~call_binds(call_keywords(c.site, c.result_url, c.error))
          THEN notify' = [c EXCEPT !.pc = "done", !.outcome = "raised"]
          ELSE IF ~c.enabled \/ c.callback_url = None
          THEN notify' = [c EXCEPT !.pc = "done", !.outcome = "returned",
                                   !.retval = FALSE]
          ELSE \E http \in HttpOutcomes :
                 notify' = [c EXCEPT
                    !.pc = "done", !.http = http,
                    !.requests = Append(@, post),
                    !.outcome = IF http \in TransportErrors /\ ~caught(http)
                                THEN "raised" ELSE "returned",
                    !.retval = http \notin TransportErrors /\ response_ok(http)]
    /\ UNCHANGED << settings, phase, gpu_count, concurrency, worker_processes,
                    environ, queues, descriptor, backend, uploads, results,
                    task, issued, known, response, notified, launcher, infra >>

NotifyNext ==
    \/ CallSendCallback
    \/ SendCallback

NotifySpec == Init /\ [][NotifyNext]_vars

\* ------------------------------------------- run_local.py, step by step
\* The launcher process from the command line to its exit.  mode "all" is
\* start_all, mode "worker_only" the --worker-only branch of __main__, whose
\* signal handler does for its one worker what start_all's finally clause
\* does for each of its workers.

\* __main__ parses the arguments; start_all counts the devices (lines 60-61).
Launch ==
    /\ launcher.pc = "idle"
    /\ \E mode \in {"all", "worker_only"}, c \in 1..MaxConcurrency,
          n \in 0..MaxDevices :
         /\ mode = "worker_only" => n = 0
         /\ launcher' = [launcher EXCEPT !.pc = "spawn", !.mode = mode]
         /\ concurrency' = c
         /\ gpu_count' = n
    /\ UNCHANGED << settings, phase, worker_processes, environ, queues,
                    descriptor, backend, uploads, results, task, issued, known,
                    response, notified, notify, infra >>

\* One start_worker call: the next iteration of "for i in range(gpu_count)"
\* (lines 63-66), or the single call without gpu_index (lines 67-69, 159).
SpawnWorker ==
    /\ launcher.pc = "spawn"
    /\ LET i == Len(worker_processes)
           gpu_index == IF launcher.mode = "all" /\ gpu_count > 0
                        THEN Some(i) ELSE None
           r == start_worker(environ, gpu_index)
           last == gpu_index = None \/ i + 1 = gpu_count
       IN /\ worker_processes' = Append(worker_processes, r.proc)
          /\ environ' = r.env
          /\ launcher' = [launcher EXCEPT
                            !.status = Append(@, "running"),
                            !.pc = IF last THEN "serve" ELSE "spawn"]
    /\ UNCHANGED << settings, phase, gpu_count, concurrency, queues,
                    descriptor, backend, uploads, results, task, issued, known,
                    response, notified, notify, infra >>

\* start_api returns or raises (lines 71-73), or the worker-only process
\* gets SIGINT/SIGTERM (lines 162-169): the shutdown code begins.
Shutdown ==
    /\ launcher.pc = "serve"
    /\ launcher' = [launcher EXCEPT !.pc = "terminate", !.k = 1]
    /\ UNCHANGED << settings, phase, gpu_count, concurrency, worker_processes,
                    environ, queues, descriptor, backend, uploads, results,
                    task, issued, known, response, notified, notify, infra >>

\* p.terminate() for worker k (lines 76, 164): SIGTERM, which a Celery
\* worker answers with a warm shutdown.
Terminate ==
    /\ launcher.pc = "terminate"
    /\ launcher' = [launcher EXCEPT
                      !.pc = "wait",
                      !.status[launcher.k] =
                          IF @ = "running" THEN "terminating" ELSE @]
    /\ UNCHANGED << settings, phase, gpu_count, concurrency, worker_processes,
                    environ, queues, descriptor, backend, uploads, results,
                    task, issued, known, response, notified, notify, infra >>

\* p.wait(timeout=5) for worker k (lines 77, 165).  in_time: whether the
\* worker exits within the five seconds; if not, wait raises TimeoutExpired,
\* which nothing catches: it leaves the loop and the launcher.
Wait ==
    /\ launcher.pc = "wait"
    /\ \E in_time \in BOOLEAN :
         IF in_time
         THEN launcher' = [launcher EXCEPT
                             !.status[launcher.k] = "exited",
                             !.k = @ + 1,
                             !.pc = IF launcher.k = Len(worker_processes)
                                    THEN "done" ELSE "terminate"]
         ELSE launcher' = [launcher EXCEPT !.pc = "raised"]
    /\ UNCHANGED << settings, phase, gpu_count, concurrency, worker_processes,
                    environ, queues, descriptor, backend, uploads, results,
                    task, issued, known, response, notified, notify, infra >>

\* A worker that has been sent SIGTERM finishes its warm shutdown, however
\* late.
WorkerExits(w) ==
    /\ w \in DOMAIN launcher.status
    /\ launcher.status[w] = "terminating"
    /\ launcher.pc \in {"raised", "done", "terminate", "wait"}
    /\ launcher.pc = "wait" => w # launcher.k
    /\ launcher' = [launcher EXCEPT !.status[w] = "exited"]
    /\ UNCHANGED << settings, phase, gpu_count, concurrency, worker_processes,
                    environ, queues, descriptor, backend, uploads, results,
                    task, issued, known, response, notified, notify, infra >>

LauncherNext ==
    \/ Launch
    \/ SpawnWorker
    \/ Shutdown
    \/ Terminate
    \/ Wait
    \/ \E w \in 1..MaxDevices : WorkerExits(w)

LauncherSpec == Init /\ [][LauncherNext]_vars

\* ------------------- models/bg_removal.py, the pool children of one worker
\* The worker whose pool is followed, and the size of the image of job j.
PoolWorker == 1

size_of(j) == j

\* A child of the (prefork) pool takes the next message of the worker's
\* queue and runs the task up to model.remove_background (line 69).
SlotTake(s, j) ==
    /\ phase = "running"
    /\ s <= concurrency
    /\ pool[s].pc = "idle"
    /\ queues[consumed_queue(PoolWorker)] # << >>
    /\ j = Head(queues[consumed_queue(PoolWorker)])
    /\ queues' = [queues EXCEPT ![consumed_queue(PoolWorker)] = dequeue(@)]
    /\ pool' = [pool EXCEPT ![s].pc = "preprocess", ![s].job = j]
    /\ response' = NoResponse
    /\ UNCHANGED << settings, phase, gpu_count, concurrency, worker_processes,
                    environ, descriptor, backend, uploads, results, task,
                    issued, known, notified, launcher, notify, crashed,
                    redis_up, child, runs >>

\* preprocess (lines 106-143): cv2.imread; an unreadable file raises
\* ValueError and remove_background returns False (lines 217-219); otherwise
\* self.orig_h, self.orig_w are set on the child's instance and the child
\* goes on to session.run (line 192), with no lock taken.
Preprocess(s) ==
    /\ pool[s].pc = "preprocess"
    /\ LET j == pool[s].job
       IN pool' = IF uploads[descriptor[j].image_path] = "image"
                  THEN [pool EXCEPT ![s].pc = "infer", ![s].orig = size_of(j)]
                  ELSE [pool EXCEPT ![s].pc = "idle", ![s].job = 0]
    /\ response' = NoResponse
    /\ UNCHANGED << settings, phase, gpu_count, concurrency, worker_processes,
                    environ, queues, descriptor, backend, uploads, results,
                    task, issued, known, notified, launcher, notify, crashed,
                    redis_up, child, runs >>

\* self.session.run returns (line 192).
SessionRun(s) ==
    /\ pool[s].pc = "infer"
    /\ pool' = [pool EXCEPT ![s].pc = "postprocess"]
    /\ response' = NoResponse
    /\ UNCHANGED << settings, phase, gpu_count, concurrency, worker_processes,
                    environ, queues, descriptor, backend, uploads, results,
                    task, issued, known, notified, launcher, notify, crashed,
                    redis_up, child, runs >>

\* postprocess and the rest of remove_background (lines 195-216): the mask
\* is resized to (self.orig_w, self.orig_h) and the output is written; the
\* child is free again (the rest of the task body is not followed here).
Postprocess(s) ==
    /\ pool[s].pc = "postprocess"
    /\ pool' = [pool EXCEPT ![s].pc = "idle", ![s].job = 0]
    /\ results' = results \cup {pool[s].job}
    /\ response' = NoResponse
    /\ UNCHANGED << settings, phase, gpu_count, concurrency, worker_processes,
                    environ, queues, descriptor, backend, uploads,
                    task, issued, known, notified, launcher, notify, crashed,
                    redis_up, child, runs >>

InferNext ==
    \/ StartAll
    \/ CreateTask
    \/ \E s \in 1..MaxConcurrency, j \in Jobs : SlotTake(s, j)
    \/ \E s \in 1..MaxConcurrency : Preprocess(s)
    \/ \E s \in 1..MaxConcurrency : SessionRun(s)
    \/ \E s \in 1..MaxConcurrency : Postprocess(s)

InferSpec == Init /\ [][InferNext]_vars

\* ------------------- worker/tasks/remove_bg.py, the files of an execution
\* The original filenames (without extension) uploads come with.
Filenames == {"cat", "dog"}

\* Line 60: f"{filename_without_ext}_nobg_{timestamp}_{unique_id}.png".
output_filename(filename_without_ext, timestamp, unique_id) ==
    << filename_without_ext, "_nobg_", timestamp, "_", unique_id, ".png" >>

\* cv2.imread(image_path) gives an image (not None).
readable_always(content) == TRUE

readable(content) == content = "image"

\* A file or object written under name by execution a: an existing one of
\* that name is replaced (cv2.imwrite and upload_file both overwrite).
written(files, name, a) ==
    {f \in files : f.name # name} \cup {[name |-> name, by |-> a]}

\* The paths of the messages executed so far.
RunPaths == {runs.att[a].path : a \in 1..Len(runs.att)}

\* A worker begins an execution: of the message of a new job (create_task
\* has saved its upload under a new path), or of a message that is
\* delivered a second time.  Lines 28-49 follow at once: S3Client() may
\* raise, and the "processing" callback raises TypeError for every
\* callback_data; both are outside the try statement, so neither the except
\* nor the finally clause runs.
Begin ==
    /\ Len(runs.att) < MaxRuns
    /\ \E s3_ok \in BOOLEAN :
       \E d \in [path : {Cardinality(RunPaths) + 1}, content : {"image", "garbage"},
                  original_filename : Filenames, callback : BOOLEAN,
                  delivery : {1}]
               \cup {[path |-> r.path, content |-> runs.inputs[r.path],
                       original_filename |-> r.original_filename,
                       callback |-> r.callback, delivery |-> 2] :
                         r \in {runs.att[a] : a \in 1..Len(runs.att)}} :
         LET r0 == [NoRun EXCEPT !.path = d.path,
                                 !.original_filename = d.original_filename,
                                 !.callback = d.callback,
                                 !.delivery = d.delivery]
             r1 == IF ~s3_ok
                   THEN [r0 EXCEPT !.pc = "done", !.state = "FAILURE",
                                   !.exc = Some(E_S3), !.error = Some(E_S3)]
                   ELSE IF d.callback
                           /\ ~call_binds({"task_id", "status"} \cup callback_data_keys)
                   THEN [r0 EXCEPT !.pc = "done", !.state = "FAILURE",
                                   !.exc = Some(E_TYPE), !.error = Some(E_TYPE)]
                   ELSE [r0 EXCEPT !.pc = "names"]
         IN runs' = [runs EXCEPT !.inputs[d.path] = d.content,
                                 !.att = Append(@, r1)]
    /\ UNCHANGED << settings, phase, gpu_count, concurrency, worker_processes,
                    environ, queues, descriptor, backend, uploads, results,
                    task, issued, known, response, notified, launcher, notify,
                    crashed, redis_up, child, pool >>

\* Lines 52-61: the output name of this execution.
GenerateNames(a) ==
    /\ a \in 1..Len(runs.att)
    /\ runs.att[a].pc = "names"
    /\ \E timestamp \in Time, unique_id \in 0..MaxUuid :
         runs' = [runs EXCEPT
            !.att[a].output_filename =
                Some(output_filename(runs.att[a].original_filename,
                                     timestamp, unique_id)),
            !.att[a].pc = "model"]
    /\ UNCHANGED << settings, phase, gpu_count, concurrency, worker_processes,
                    environ, queues, descriptor, backend, uploads, results,
                    task, issued, known, response, notified, launcher, notify,
                    crashed, redis_up, child, pool >>

\* Lines 63-76: model.remove_background reads the input and writes the
\* output file, or returns False and the task raises.
ModelCall(a) ==
    /\ a \in 1..Len(runs.att)
    /\ runs.att[a].pc = "model"
    /\ LET r == runs.att[a]
           content == runs.inputs[r.path]
           name == CHOOSE n \in r.output_filename : TRUE
       IN IF readable(content)
          THEN runs' = [runs EXCEPT
                  !.outputs = written(@, name, a),
                  !.att[a].input_missing = (content = "absent"),
                  !.att[a].pc = "store"]
          ELSE runs' = [runs EXCEPT
                  !.att[a].pc = "except",
                  !.att[a].input_missing = (content = "absent"),
                  !.att[a].exc = Some(E_MODEL)]
    /\ UNCHANGED << settings, phase, gpu_count, concurrency, worker_processes,
                    environ, queues, descriptor, backend, uploads, results,
                    task, issued, known, response, notified, launcher, notify,
                    crashed, redis_up, child, pool >>

\* Lines 78-121: the upload to results/{output_filename} when S3 is
\* configured, and the return of the result dict.
Store(a) ==
    /\ a \in 1..Len(runs.att)
    /\ runs.att[a].pc = "store"
    /\ \E upload_ok \in BOOLEAN :
         LET r == runs.att[a]
             name == CHOOSE n \in r.output_filename : TRUE
         IN IF settings.S3_CONFIGURED /\ ~upload_ok
            THEN runs' = [runs EXCEPT !.att[a].pc = "except",
                                      !.att[a].exc = Some(E_UPLOAD)]
            ELSE /\ settings.S3_CONFIGURED \/ upload_ok
                 /\ runs' = [runs EXCEPT
                       !.objects = IF settings.S3_CONFIGURED
                                   THEN written(@, name, a) ELSE @,
                       !.att[a].pc = "finally",
                       !.att[a].state = "SUCCESS"]
    /\ UNCHANGED << settings, phase, gpu_count, concurrency, worker_processes,
                    environ, queues, descriptor, backend, uploads, results,
                    task, issued, known, response, notified, launcher, notify,
                    crashed, redis_up, child, pool >>

\* Lines 123-150: the except clause (an execution with callback_data never
\* gets here, see Begin) writes FAILURE with the error message and raises.
Except(a) ==
    /\ a \in 1..Len(runs.att)
    /\ runs.att[a].pc = "except"
    /\ LET e == CHOOSE m \in runs.att[a].exc : TRUE
       IN runs' = [runs EXCEPT !.att[a].pc = "finally",
                               !.att[a].state = "FAILURE",
                               !.att[a].error = Some(error_message(e))]
    /\ UNCHANGED << settings, phase, gpu_count, concurrency, worker_processes,
                    environ, queues, descriptor, backend, uploads, results,
                    task, issued, known, response, notified, launcher, notify,
                    crashed, redis_up, child, pool >>

\* Lines 151-163: the finally clause removes image_path when it exists;
\* the lines that would remove output_path are commented out.
Finally(a) ==
    /\ a \in 1..Len(runs.att)
    /\ runs.att[a].pc = "finally"
    /\ runs' = [runs EXCEPT !.inputs[runs.att[a].path] = "absent",
                            !.att[a].pc = "done"]
    /\ UNCHANGED << settings, phase, gpu_count, concurrency, worker_processes,
                    environ, queues, descriptor, backend, uploads, results,
                    task, issued, known, response, notified, launcher, notify,
                    crashed, redis_up, child, pool >>

RunsNext ==
    \/ Begin
    \/ \E a \in 1..MaxRuns : GenerateNames(a)
    \/ \E a \in 1..MaxRuns : ModelCall(a)
    \/ \E a \in 1..MaxRuns : Store(a)
    \/ \E a \in 1..MaxRuns : Except(a)
    \/ \E a \in 1..MaxRuns : Finally(a)

RunsSpec == Init /\ [][RunsNext]_vars

\* ----------------------- worker_init.py and models/bg_removal.py, one child
\* The CELERY_WORKER_NAME values told apart: empty or not set, set without
\* a digit, or set with digits that read as k.
WorkerNames ==
    {[empty |-> TRUE, digits |-> None], [empty |-> FALSE, digits |-> None]}
    \cup {[empty |-> FALSE, digits |-> Some(k)] : k \in 0..MaxWorkerId}

\* get_worker_id(): the digits of CELERY_WORKER_NAME, else os.getpid() % 10
\* (int('') raises ValueError for a name without digits).
get_worker_id(worker_name, pid) ==
    IF ~worker_name.empty /\ worker_name.digits # None
    THEN CHOOSE k \in worker_name.digits : TRUE
    ELSE pid % 10

\* torch.cuda.device_count() under a CUDA_VISIBLE_DEVICES value.
device_count(cuda_visible_devices, host_gpus) ==
    IF cuda_visible_devices = None THEN host_gpus
    ELSE Cardinality({i \in cuda_visible_devices : i < host_gpus})

\* __init__ lines 45-62: the device of a new instance.
device_of(worker_id, device_setting, cuda_available, num_gpus) ==
    LET self_worker_id == worker_id
    IN IF device_setting = "cuda" /\ cuda_available /\ num_gpus > 0
       THEN [worker_id |-> self_worker_id, device |-> "cuda",
             gpu_id |-> Some(self_worker_id % num_gpus), num_gpus |-> num_gpus]
       ELSE [worker_id |-> self_worker_id, device |-> "cpu",
             gpu_id |-> None, num_gpus |-> num_gpus]

\* cls(worker_id=...) as called by get_instance: __init__ and _load_model.
\* load: "ok", "missing" (the model file does not exist, line 73) or
\* "session" (InferenceSession raises, line 91); num_gpus: what
\* torch.cuda.device_count() answers.  The result is the child afterwards
\* and whether the constructor raised.
construct(c, key, load, num_gpus) ==
    LET m == device_of(key, c.device_setting, c.cuda_available, num_gpus)
        rewrites == m.device = "cuda" /\ c.cuda_available /\ load # "missing"
        c1 == [c EXCEPT !.environ_cuda = IF rewrites THEN m.gpu_id ELSE @]
    IN IF load = "ok"
       THEN [child |-> [c1 EXCEPT
                !.instances = @ \cup {[key |-> key] @@ m},
                !.constructed = @ + 1],
             raised |-> FALSE]
       ELSE [child |-> c1, raised |-> TRUE]

\* BackgroundRemovalModel.get_instance(worker_id): None is key 0.
get_instance(c, worker_id, load, num_gpus) ==
    LET key == IF worker_id = None THEN 0 ELSE CHOOSE k \in worker_id : TRUE
    IN IF \E m \in c.instances : m.key = key
       THEN [child |-> c, raised |-> FALSE, key |-> key]
       ELSE construct(c, key, load, num_gpus) @@ [key |-> key]

\* What device_count can answer in the child: the count under the
\* environment of the spawn or under the environment as it is now.
DeviceCounts(c) ==
    {device_count(c.spawn_cuda, c.host_gpus),
     device_count(c.environ_cuda, c.host_gpus)}

\* start_all spawns a worker on a host with n devices (worker i of n, or the
\* single CPU worker) and the worker forks a pool child.
SpawnProcess ==
    /\ child.pc = "none"
    /\ \E n \in 0..MaxDevices, device_setting \in {"cuda", "cpu"},
          torch_cuda \in BOOLEAN, worker_name \in WorkerNames,
          pid \in 0..MaxWorkerId :
         \E gpu_index \in IF n > 0 THEN {Some(i) : i \in 0..n - 1} ELSE {None} :
            LET env == start_worker(None, gpu_index).proc.cuda_visible_devices
            IN child' = [NoChild EXCEPT
                  !.pc = "forked", !.device_setting = device_setting,
                  !.host_gpus = n,
                  !.cuda_available =
                      torch_cuda /\ device_count(env, n) > 0,
                  !.worker_name = worker_name, !.pid = pid,
                  !.spawn_cuda = env, !.environ_cuda = env]
    /\ UNCHANGED << settings, phase, gpu_count, concurrency, worker_processes,
                    environ, queues, descriptor, backend, uploads, results,
                    task, issued, known, response, notified, launcher, notify,
                    crashed, redis_up, pool, runs >>

\* init_worker_process: the worker_process_init handler of the child.
InitWorkerProcess ==
    /\ child.pc = "forked"
    /\ \E load \in {"ok", "missing", "session"}, num_gpus \in DeviceCounts(child) :
         LET worker_id == get_worker_id(child.worker_name, child.pid)
             r == get_instance([child EXCEPT !.worker_id = worker_id],
                               Some(worker_id), load, num_gpus)
         IN child' = [r.child EXCEPT
                        !.pc = IF r.raised THEN "init_failed" ELSE "ready"]
    /\ UNCHANGED << settings, phase, gpu_count, concurrency, worker_processes,
                    environ, queues, descriptor, backend, uploads, results,
                    task, issued, known, response, notified, launcher, notify,
                    crashed, redis_up, pool, runs >>

\* remove_background line 64 in the child: get_instance() without worker_id.
TaskGetInstance ==
    /\ child.pc = "ready"
    /\ child.tasks < MaxJobs
    /\ \E load \in {"ok", "missing", "session"}, num_gpus \in DeviceCounts(child) :
         LET r == get_instance(child, None, load, num_gpus)
         IN child' = [r.child EXCEPT
                        !.tasks = @ + 1,
                        !.used = IF r.raised THEN @ ELSE @ \cup {r.key}]
    /\ UNCHANGED << settings, phase, gpu_count, concurrency, worker_processes,
                    environ, queues, descriptor, backend, uploads, results,
                    task, issued, known, response, notified, launcher, notify,
                    crashed, redis_up, pool, runs >>

PoolNext ==
    \/ SpawnProcess
    \/ InitWorkerProcess
    \/ TaskGetInstance

PoolSpec == Init /\ [][PoolNext]_vars

\* ==================================================================
\* Properties
\* ==================================================================
Terminal(j) == backend[j].state \in {"SUCCESS", "FAILURE"}

\* The status a status query reports for id in the current state.
Observable(id) == status_mapping(AsyncResult_state(id))

\* C1: the statuses a caller can observe for a job through the status query
\* follow pending -> processing -> (completed | failed): every answer of the
\* query carries the status mapped from the stored state, and that status
\* only ever moves from pending to processing and from processing to one
\* terminal status, so no poll sees a terminal status before processing was
\* written, and none sees pending again afterwards.
C1_StatusOrder ==
    [][ /\ \A j \in Jobs :
             Observable(j)' # Observable(j) =>
                \/ Observable(j) = "pending" /\ Observable(j)' = "processing"
                \/ Observable(j) = "processing"
                     /\ Observable(j)' \in {"completed", "failed"}
        /\ \A id \in Jobs :
             (response'.op = "get_task_status" /\ response'.code = 200
                /\ response'.task_id = id) =>
                response'.status = Some(Observable(id)') ]_vars

\* C1 witness: a poll has answered "failed" for a job whose task raised
\* before its own update_state call.
C1_Witness ==
    \E j \in known :
       /\ response.op = "get_task_status" /\ response.task_id = j
       /\ response.code = 200 /\ response.status = Some("failed")
       /\ backend[j].result.exc = Some(E_S3)

\* C2: once a job's record shows completed or failed, no later step changes
\* the stored state or result (status, result reference, error text,
\* timings).
C2_TerminalImmutable ==
    [][ \A j \in Jobs : Terminal(j) => backend'[j] = backend[j] ]_vars

\* C3: whenever a job is in a terminal state its input artifact is gone from
\* temporary storage.
C3_InputRemovedWhenTerminal ==
    \A j \in known : Terminal(j) => uploads[descriptor[j].image_path] = "absent"

\* The stored failure of j comes from the storage client, the model or the
\* upload, not from a notification call.
FailedBeforeOrInExecution(j) ==
    backend[j].result.exc \cap {E_S3, E_MODEL, E_UPLOAD} # {}

\* C4: a finished job that carried a callback specification and met no
\* storage or execution error is completed with a result reference: a
\* failing notification never turns it into failed.
C4_CallbackNeverFailsJob ==
    \A j \in known :
       (task[j].pc = "done" /\ descriptor[j].has_callback_data
          /\ ~FailedBeforeOrInExecution(j))
       => (backend[j].state = "SUCCESS" /\ backend[j].result.result_url # None)

\* C5: with at least one device-bound worker running, every job accepted by
\* create_task eventually reaches a terminal state, and a job that has
\* entered processing runs to completed or failed.
C5_EventuallyTerminal ==
    \A j \in Jobs :
       ((j \in known /\ gpu_count > 0) \/ backend[j].state = "STARTED")
          ~> Terminal(j)

\* C5 witness: an accepted job of a device-bound pool has become terminal.
C5_Witness ==
    \E j \in known : gpu_count > 0 /\ Terminal(j) /\ task[j].pc = "done"

NumProcessing == Cardinality({j \in Jobs : backend[j].state = "STARTED"})

\* The device-bound workers of the pool (W).
DeviceWorkers ==
    {w \in DOMAIN worker_processes :
        worker_processes[w].cuda_visible_devices # None}

\* C6 as stated: at most W jobs are in processing at any moment, whatever
\* the per-worker concurrency.
C6_AtMostWProcessing == NumProcessing <= Cardinality(DeviceWorkers)

\* C6 amended: at most W * concurrency jobs are in processing at any moment
\* (each worker runs up to --concurrency tasks at once); at most W when the
\* concurrency is 1.
C6_AtMostSlotsProcessing ==
    /\ NumProcessing <= Cardinality(DeviceWorkers) * concurrency
    /\ concurrency = 1 => NumProcessing <= Cardinality(DeviceWorkers)

\* C6 witness: every slot of a pool with concurrency above 1 is processing.
C6_Witness ==
    /\ Cardinality(DeviceWorkers) > 0 /\ concurrency > 1
    /\ NumProcessing = Cardinality(DeviceWorkers) * concurrency

\* The model call of job j returned False (line 76 raised).
ExecutionRaised(j) ==
    \/ backend[j].result.exc = Some(E_MODEL)
    \/ backend[j].result.error = Some(error_message(E_MODEL))

\* C7: for a job whose execution step raised, a status query answers failed
\* with a non-empty error, a processing_time >= 0 and a queue_time.
C7_FailedCarriesTimings ==
    (response.op = "get_task_status" /\ response.code = 200
       /\ response.status = Some("failed") /\ ExecutionRaised(response.task_id))
    => /\ response.error # None
       /\ response.processing_time # None
       /\ \A v \in response.processing_time : v >= 0
       /\ response.queue_time # None

\* C8: a status query for an id that no submission returned answers 404 and
\* reports no status.
C8_UnknownIdIs404 ==
    (response.op = "get_task_status" /\ response.task_id \notin known)
    => (response.code = 404 /\ response.status = None)

\* Two finished jobs that differ only in carrying a callback specification:
\* same submission and start readings, same storage/execution error if any.
SameRunButCallback(j1, j2) ==
    /\ task[j1].pc = "done" /\ task[j2].pc = "done"
    /\ descriptor[j1].has_callback_data /\ ~descriptor[j2].has_callback_data
    /\ descriptor[j1].creation_time = descriptor[j2].creation_time
    /\ task[j1].start_time = task[j2].start_time
    /\ backend[j1].result.exc \cap {E_S3, E_MODEL, E_UPLOAD}
         = backend[j2].result.exc \cap {E_S3, E_MODEL, E_UPLOAD}

\* C9: the final status and the recorded timings of a job do not depend on
\* whether it carries a callback specification.
C9_CallbackIndependent ==
    \A j1, j2 \in known :
       SameRunButCallback(j1, j2) =>
          /\ backend[j1].state = backend[j2].state
          /\ backend[j1].result.queue_time = backend[j2].result.queue_time
          /\ (backend[j1].result.processing_time = None)
               <=> (backend[j2].result.processing_time = None)

\* C10 as stated: a terminal record's queue_time is the worker's start
\* reading minus the descriptor's submission reading, and is >= 0.
C10_QueueTimeNonNegative ==
    \A j \in known :
       (Terminal(j) /\ backend[j].result.queue_time # None) =>
          /\ backend[j].result.queue_time
               = Some(task[j].start_time - descriptor[j].creation_time)
          /\ \A q \in backend[j].result.queue_time : q >= 0

\* C10 amended: a terminal record's queue_time is the worker's start reading
\* minus the descriptor's submission reading, unclamped: it is negative
\* exactly when the submitter's reading is later than the worker's.
C10_QueueTimeIsDifference ==
    \A j \in known :
       (Terminal(j) /\ backend[j].result.queue_time # None) =>
          /\ backend[j].result.queue_time
               = Some(task[j].start_time - descriptor[j].creation_time)
          /\ \A q \in backend[j].result.queue_time :
                q < 0 <=> descriptor[j].creation_time > task[j].start_time

\* C10 witness: a completed job whose stored queue_time is negative.
C10_Witness ==
    \E j \in known :
       /\ backend[j].state = "SUCCESS"
       /\ backend[j].result.queue_time = Some(0 - 1)

\* C14: a finished job that carried a callback specification has had exactly
\* two notification attempts, in this order: one with status processing and
\* one terminal one whose status is the job's recorded terminal status (so
\* never both a completed and a failed one).  Stated for the jobs whose task
\* got past the construction of its clients.
C14_OneTerminalNotification ==
    \A j \in known :
       (task[j].pc = "done" /\ descriptor[j].has_callback_data
          /\ backend[j].result.exc # Some(E_S3))
       => notified[j] = << "processing", Observable(j) >>

\* C20: a create_task answer of 400 leaves the upload directory, the queues,
\* the descriptors and the known ids as they were; an answer of 202 carries
\* status pending and a fresh id, and appends exactly one descriptor for that
\* id to the submission queue, holding the reference of the input just
\* saved and a submission timestamp.
C20_RejectOrEnqueueOne ==
    [][ response'.op = "create_task" =>
          /\ response'.code = 400 =>
                UNCHANGED << uploads, queues, descriptor, known, issued >>
          /\ response'.code = 202 =>
                LET id == response'.task_id
                IN /\ id \notin known /\ known' = known \cup {id}
                   /\ response'.status = Some("pending")
                   /\ queues' = [queues EXCEPT ![SUBMIT_QUEUE] = Append(@, id)]
                   /\ uploads[id] = "absent" /\ uploads'[id] # "absent"
                   /\ descriptor'[id].image_path = id
                   /\ descriptor'[id].creation_time \in Time
                   /\ \A j \in Jobs \ {id} : descriptor'[j] = descriptor[j] ]_vars

\* C20 witness: a submission has just been rejected with 400 while the
\* descriptor of an earlier, accepted submission is still in the queue.
C20_Witness ==
    /\ response.op = "create_task" /\ response.code = 400
    /\ known = {1} /\ queues[SUBMIT_QUEUE] = << 1 >>
    /\ descriptor[1].image_path = 1 /\ uploads[1] # "absent"

\* The launcher has spawned all its workers.
Spawned == launcher.pc \notin {"idle", "spawn"}

\* C11: when start_all detects n > 0 devices it spawns exactly n workers;
\* worker i (0 <= i < n) consumes the queue of accelerated work and was
\* started with CUDA_VISIBLE_DEVICES = i in its environment, so the n workers
\* hold n distinct device indices, although the launcher's own variable is
\* overwritten by every spawn.
C11_OneWorkerPerDevice ==
    (launcher.mode = "all" /\ gpu_count > 0) =>
       /\ Len(worker_processes) <= gpu_count
       /\ Spawned => Len(worker_processes) = gpu_count
       /\ \A w \in DOMAIN worker_processes :
             /\ worker_processes[w].queue = SUBMIT_QUEUE
             /\ worker_processes[w].cuda_visible_devices = Some(w - 1)
       /\ \A v, w \in DOMAIN worker_processes :
             v # w => worker_processes[v].cuda_visible_devices
                        # worker_processes[w].cuda_visible_devices

\* C11 witness: three workers are up, the first still bound to device 0
\* while the launcher's variable has moved on to 2.
C11_Witness ==
    /\ launcher.pc = "serve" /\ gpu_count = 3 /\ Len(worker_processes) = 3
    /\ worker_processes[1].cuda_visible_devices = Some(0)
    /\ environ = Some(2)

\* C12: every worker the launcher has spawned (one per device, the single
\* worker of a host without devices, the worker of worker-only mode)
\* consumes the queue to which create_task publishes.
C12_WorkersConsumeSubmitQueue ==
    \A w \in DOMAIN worker_processes :
       worker_processes[w].queue = SUBMIT_QUEUE

\* C13: once the launcher's shutdown code has ended, normally or not, every
\* spawned worker has been sent the termination signal and has exited or
\* been killed.
C13_AllWorkersStopped ==
    launcher.pc \in {"done", "raised"} =>
       \A w \in DOMAIN launcher.status :
          launcher.status[w] \in {"exited", "killed"}

\* The call under way is one remove_background makes for a job that carries
\* a callback specification.
JobCall == notify.site \in {"processing", "completed", "failed"}

\* C16: the notification of a job that carries a callback specification is
\* one POST to the job's own callback URL, with the job's auth token as
\* bearer authorization, whose JSON body holds task_id, status, the result
\* reference (completed) or the error (failed), the timings (terminal
\* statuses) and the job's custom_data.
C16_PostCarriesJobData ==
    (notify.pc = "done" /\ JobCall /\ notify.enabled
       /\ notify.callback_url # None) =>
       /\ Len(notify.requests) = 1
       /\ \A i \in DOMAIN notify.requests :
             LET r == notify.requests[i]
             IN /\ r.url = notify.job_url
                /\ r.authorization = notify.job_auth
                /\ r.json.task_id # None
                /\ r.json.status = Some(notify.status)
                /\ notify.site = "completed" => r.json.result_url # None
                /\ notify.site = "failed" => r.json.error # None
                /\ notify.site # "processing" =>
                      (r.json.processing_time # None /\ r.json.queue_time # None)
                /\ r.json.custom_data = notify.custom_data

\* C17: when callbacks are disabled for the deployment or the deployment has
\* no target URL, a send_callback call posts nothing and returns False (it
\* does not raise, so the calling job goes on).
C17_DisabledReturnsFalse ==
    (notify.pc = "done" /\ (~notify.enabled \/ notify.callback_url = None)) =>
       /\ notify.requests = << >>
       /\ notify.outcome = "returned"
       /\ notify.retval = FALSE

\* C18: a send_callback call issues at most one POST whatever its outcome,
\* and a call that has issued its POST returns (True or False) and does not
\* raise, for every response status and every transport error.
C18_AtMostOnePostNoRaise ==
    notify.pc = "done" =>
       /\ Len(notify.requests) <= 1
       /\ notify.requests # << >> => notify.outcome = "returned"
       /\ (notify.requests # << >> /\ notify.http \in TransportErrors)
             => notify.retval = FALSE

\* C18 witness: the one POST of a call timed out and the call returned False.
C18_Witness ==
    /\ notify.pc = "done" /\ Len(notify.requests) = 1
    /\ notify.http = "timeout"
    /\ notify.outcome = "returned" /\ notify.retval = FALSE

\* C19: a send_callback call that returns, returns True exactly when it
\* issued the POST and the answer was a 2xx one.
C19_TrueIff2xx ==
    (notify.pc = "done" /\ notify.outcome = "returned") =>
       (notify.retval <=> (notify.requests # << >> /\ notify.http = "2xx"))

\* The ids held by the broker's queues.
Queued == UNION {{q[i] : i \in DOMAIN q} : q \in {queues[n] : n \in DOMAIN queues}}

\* C21: a create_task call that has saved its upload but could not publish
\* (the broker was unreachable) answers with a 5xx status and no task id,
\* leaves queues and descriptors as they were, and the id it used is never
\* queued and never run by a worker.
C21_BrokerDownIs5xx ==
    [][ /\ (issued' # issued /\ known' = known) =>
              /\ response'.op = "create_task"
              /\ response'.code \in 500..599
              /\ response'.task_id = 0 /\ response'.status = None
              /\ UNCHANGED << queues, descriptor >>
        /\ \A j \in Jobs \ known' :
              /\ j \notin Queued'
              /\ task'[j].pc = "idle"
              /\ backend'[j].state = "ABSENT" ]_vars

\* C21 witness: the first submission met an unreachable broker: its upload is
\* saved, it got a 500, nothing is queued or known.
C21_Witness ==
    /\ response.op = "create_task" /\ response.code = 500
    /\ issued = 1 /\ uploads[1] # "absent"
    /\ known = {} /\ Queued = {}

\* C22: a status-query answer with status pending or processing carries no
\* processing_time, queue_time, model_time, result_url or error (so the
\* timings are present only with completed or failed).
C22_TimingsOnlyWhenTerminal ==
    (response.op = "get_task_status" /\ response.code = 200
       /\ response.status \cap {"completed", "failed"} = {}) =>
       /\ response.status \subseteq {"pending", "processing"}
       /\ response.processing_time = None
       /\ response.queue_time = None
       /\ response.model_time = None
       /\ response.result_url = None
       /\ response.error = None

\* C22 witness: a poll answered processing for a running job, and another
\* job's record already holds timings.
C22_Witness ==
    /\ response.op = "get_task_status" /\ response.status = Some("processing")
    /\ \E j \in known : backend[j].result.processing_time # None

\* C23: without remote storage credentials no job fails in a storage
\* operation, and a finished job whose model call wrote its output is
\* completed with a file:// result reference.
C23_NoStorageFailureWithoutCredentials ==
    ~settings.S3_CONFIGURED =>
       \A j \in known :
          /\ backend[j].result.exc \cap {E_S3, E_UPLOAD} = {}
          /\ (task[j].pc = "done" /\ j \in results) =>
                /\ backend[j].state = "SUCCESS"
                /\ \A u \in backend[j].result.result_url : u.scheme = "file"
                /\ backend[j].result.result_url # None

\* C24: a status query for a completed job answers 200 with status completed
\* and the result_url the task recorded, whether that is an https:// URL or
\* a file:// one.
C24_CompletedQueryReturnsUrl ==
    \A j \in known :
       (response.op = "get_task_status" /\ response.task_id = j
          /\ backend[j].state = "SUCCESS") =>
          /\ response.code = 200
          /\ response.status = Some("completed")
          /\ response.result_url = backend[j].result.result_url
          /\ response.result_url # None

\* C26: a job is dispatched only once: a worker starts a job only when no
\* run of it exists, a job that has been started is in no queue, and every
\* write to a job's record is made by the one run of that job (the run that
\* starts with the write, is under way on the same worker, or ends with it).
C26_SingleOwner ==
    [][ \A j \in Jobs :
          /\ (task'[j].pc = "prologue" /\ task'[j] # task[j]) =>
                task[j].pc = "idle"
          /\ task'[j].pc # "idle" => j \notin Queued'
          /\ backend'[j] # backend[j] =>
                /\ task[j].pc # "done"
                /\ \/ task[j].pc = "idle" /\ task'[j].pc = "prologue"
                   \/ task[j].pc # "idle"
                        /\ (task'[j].worker = task[j].worker
                               \/ task'[j].pc = "done") ]_vars

\* C26 witness: two jobs run at once on one worker's two slots, and the
\* later submission has reached a terminal state before the earlier one.
C26_Witness ==
    /\ known = {1, 2} /\ concurrency = 2
    /\ backend[1].state = "STARTED" /\ task[1].pc = "model"
    /\ Terminal(2) /\ task[2].pc = "done"

\* No task is running on worker w.
Idle(w) == \A i \in Jobs : task[i].pc \in {"idle", "done"} \/ task[i].worker # w

\* C27: once a job whose model call failed has ended, its record is failed,
\* every worker that is running nothing can still take the next job of its
\* queue, and every other finished job has its own outcome: completed with
\* the output it wrote, or failed with its own error.
C27_FailureContained ==
    \A j \in known :
       (task[j].pc = "done" /\ ExecutionRaised(j)) =>
          /\ backend[j].state = "FAILURE"
          /\ \A w \in DOMAIN worker_processes, j2 \in Jobs :
                (Idle(w) /\ queues[consumed_queue(w)] # << >>
                   /\ j2 = Head(queues[consumed_queue(w)]))
                => ENABLED StartTask(w, j2)
          /\ \A j2 \in known \ {j} :
                task[j2].pc = "done" =>
                   \/ backend[j2].state = "SUCCESS" /\ j2 \in results
                        /\ backend[j2].result.status = Some("completed")
                   \/ backend[j2].state = "FAILURE"
                        /\ backend[j2].result.exc # None

\* C27 witness: on a worker with one slot, a job whose model call failed has
\* ended and the next job has been taken and has completed.
C27_Witness ==
    /\ concurrency = 1 /\ known = {1, 2}
    /\ task[1].pc = "done" /\ ExecutionRaised(1)
    /\ task[2].pc = "done" /\ backend[2].state = "SUCCESS"

\* C25: a job whose worker crashed after taking it and before it reached a
\* terminal state is run again and eventually reaches a terminal state.
C25_LostJobEventuallyTerminal ==
    \A j \in Jobs :
       (task[j].pc = "lost" /\ ~Terminal(j)) ~> Terminal(j)

\* C28: a health answer has an overall status among healthy, degraded and
\* unhealthy and the components api, worker and redis (the broker); the
\* overall status is healthy exactly when Redis answers and some worker is
\* alive; a Redis that is down is reported with a redis component other
\* than healthy.
C28_HealthReflectsDependencies ==
    response.op = "health_check" =>
       /\ response.status \subseteq {"healthy", "degraded", "unhealthy"}
       /\ response.status # None /\ response.components # None
       /\ \A c \in response.components :
             /\ DOMAIN c = {"api", "worker", "redis"}
             /\ ~redis_up => c.redis # "healthy"
             /\ DOMAIN worker_processes \ crashed = {} => c.worker # "healthy"
       /\ response.status = Some("healthy")
             <=> (redis_up /\ DOMAIN worker_processes \ crashed # {})

\* C28 witness: Redis is down while a worker is alive, and the health answer
\* is degraded with redis reported unknown.
C28_Witness ==
    /\ response.op = "health_check" /\ ~redis_up
    /\ DOMAIN worker_processes \ crashed # {}
    /\ response.status = Some("degraded")
    /\ \A c \in response.components : c.redis = "unknown"
    /\ response.components # None

\* C29: a pool child constructs at most one model instance, and every task
\* run in it uses the instance preloaded by init_worker_process (the one
\* stored under the child's worker id).
C29_OneInstancePerProcess ==
    /\ child.constructed <= 1
    /\ child.used \subseteq {child.worker_id}

\* C30: the device binding of a child is computed once, is
\* worker_id mod device_count and lies in 0..device_count-1, and the
\* CUDA_VISIBLE_DEVICES of the child stays what it was at the spawn.
C30_DeviceBindingFixed ==
    /\ child.environ_cuda = child.spawn_cuda
    /\ Cardinality({m \in child.instances : m.device = "cuda"}) <= 1
    /\ \A m \in child.instances :
          m.device = "cuda" =>
             /\ m.gpu_id = Some(child.worker_id % m.num_gpus)
             /\ m.gpu_id \subseteq 0..m.num_gpus - 1

\* C32: while a task is at the model call, its backend entry already is
\* STARTED with the meta {status: processing} written by update_state before
\* the try statement, and a status query answers processing.
C32_ProcessingWrittenBeforeModel ==
    \A j \in Jobs :
       task[j].pc = "model" =>
          /\ backend[j].state = "STARTED"
          /\ backend[j].result.status = Some("processing")
          /\ status_mapping(AsyncResult_state(j)) = "processing"

\* C32 witness: a task is about to call the model.
C32_Witness == \E j \in Jobs : task[j].pc = "model"

\* C36: every input file in TEMP_UPLOAD_DIR belongs to a task whose message
\* was enqueued (its id was returned with 202): a submission that fails
\* after the file was saved leaves no file behind.
C36_NoOrphanInput ==
    \A path \in Jobs : uploads[path] # "absent" => path \in known

\* C37: in every backend entry and every status answer, completed comes with
\* a result_url and no error, failed with a non-empty error and no
\* result_url.
C37_StatusFieldsConsistent ==
    /\ \A j \in Jobs :
          LET r == backend[j].result
          IN /\ backend[j].state = "SUCCESS" =>
                   /\ r.kind = "dict" /\ r.status = Some("completed")
                   /\ r.result_url # None /\ r.error = None /\ r.exc = None
             /\ backend[j].state = "FAILURE" =>
                   /\ r.result_url = None
                   /\ r.kind = "dict" => r.error # None /\ r.error # Some("")
                   /\ r.kind = "exc" => r.exc # None /\ r.exc # Some("")
                   /\ r.kind \in {"dict", "exc"}
    /\ (response.op = "get_task_status" /\ response.code = 200) =>
          /\ response.status = Some("completed") =>
                response.result_url # None /\ response.error = None
          /\ response.status = Some("failed") =>
                /\ response.error # None /\ response.error # Some("")
                /\ response.result_url = None

\* C37 witness: a status query has answered failed, with the error, for a
\* task whose entry is FAILURE, while another entry is SUCCESS.
C37_Witness ==
    /\ response.op = "get_task_status" /\ response.code = 200
    /\ response.status = Some("failed") /\ response.error # None
    /\ \E j \in Jobs : backend[j].state = "SUCCESS"

\* C38: a status query changes nothing but the answer it gives: backend
\* entries, queues, input files and output files (and every task's frame)
\* are left as they were, for known and unknown ids.
C38_StatusQueryReadOnly ==
    [][(\E id \in Jobs : GetTaskStatus(id)) =>
          UNCHANGED << backend, queues, uploads, results, task, descriptor,
                       known, issued, notified >>]_vars

\* C38 witness: a status query has answered (200 or 404) while a task was
\* between its steps.
C38_Witness ==
    /\ response.op = "get_task_status"
    /\ \E j \in Jobs : task[j].pc \notin {"idle", "done"}

\* C31: the pool children of one worker are never inside session.run at the
\* same time, and from preprocess to postprocess the size kept on a child's
\* model instance is the size of the image that child is working on.
C31_DeviceCallSerialized ==
    /\ Cardinality({s \in 1..MaxConcurrency : pool[s].pc = "infer"}) <= 1
    /\ \A s \in 1..MaxConcurrency :
          pool[s].pc \in {"infer", "postprocess"} =>
             pool[s].orig = size_of(pool[s].job)

\* The executions begun so far.
Runs == 1..Len(runs.att)

\* C33: an execution that found its input file absent is recorded as
\* FAILURE with a non-empty error, has written no output file and no S3
\* object, and leaves the worker able to begin the next execution.
C33_AbsentInputFailsCleanly ==
    \A a \in Runs :
       runs.att[a].input_missing =>
          /\ runs.att[a].pc \in {"except", "finally", "done"}
          /\ runs.att[a].pc \in {"finally", "done"} =>
                /\ runs.att[a].state = "FAILURE"
                /\ runs.att[a].error # None /\ runs.att[a].error # Some("")
          /\ \A f \in runs.outputs \cup runs.objects : f.by # a
          /\ Len(runs.att) < MaxRuns => ENABLED Begin

\* C33 witness: the message of a completed execution was delivered a second
\* time, and the second execution, which found the input removed, is over.
C33_Witness ==
    \E a, b \in Runs :
       /\ runs.att[a].state = "SUCCESS" /\ runs.att[a].pc = "done"
       /\ runs.att[b].delivery = 2 /\ runs.att[b].path = runs.att[a].path
       /\ runs.att[b].input_missing /\ runs.att[b].pc = "done"
       /\ runs.att[b].state = "FAILURE"

\* C34: no two executions have the same output name (so none writes the
\* output file or the S3 object of another).
C34_FreshOutputIdentity ==
    \A a, b \in Runs :
       (a # b /\ runs.att[a].output_filename # None
              /\ runs.att[b].output_filename # None)
          => runs.att[a].output_filename # runs.att[b].output_filename

\* C35: an output file or S3 object, once written, is left as it is by
\* every step of every execution: the finally clause removes only the
\* input, and no other execution replaces it.
C35_OutputsLeftUnchanged ==
    [][/\ runs.outputs \subseteq runs'.outputs
       /\ runs.objects \subseteq runs'.objects]_vars

====
